---- MODULE Spec2Model ----
(***************************************************************************)
(* Telecom invoice backend (telecom-backend/app): the user and invoice     *)
(* tables, and the request handlers of main.py with the controllers and     *)
(* crud functions they call.  Every request runs in its own database        *)
(* session (deps.get_db); a handler that touches the store more than once   *)
(* is modelled with one step per store access, so that requests interleave. *)
(*                                                                          *)
(* Money: the column is DECIMAL(10,2) on SQLite, which SQLAlchemy binds as  *)
(* a float and reads back as Decimal("%.2f" % value).  Amounts are integers *)
(* in thousandths of the currency unit; the stored value keeps the          *)
(* thousandths, a value read through the ORM is rounded to hundredths.      *)
(* The clock `now` counts minutes; a timestamp is a value of the clock, a    *)
(* date is the number of its day, date(t).                                  *)
(* Optional values are sequences: <<>> is None, <<v>> is the value v.       *)
(***************************************************************************)
EXTENDS Integers, Sequences, FiniteSets, TLC

\* ------------------------------------------------------------- bounds
MaxUsuarios == 3
MaxFacturas == 2
NumSessions == 2

\* ------------------------------------------------------------- models.py
PENDIENTE == "PENDIENTE"
PAGADO == "PAGADO"
VENCIDO == "VENCIDO"
CANCELADO == "CANCELADO"
EstadoFactura == {PENDIENTE, PAGADO, VENCIDO, CANCELADO}

None == <<>>
Some(v) == <<v>>
IsNone(o) == o = <<>>
Val(o) == o[1]

\* ------------------------------------------------------------- schemas.py
MinUsernameLen == 3
MaxUsernameLen == 50
MinPasswordLen == 6
DefaultDiasVencimiento == 30

\* str.isalnum and str.lower on the characters the inputs use
LowerChars == {"a", "b", "d", "e", "i", "m", "n", "o", "v"}
UpperChars == {"A", "B", "E"}
DigitChars == {"1", "2"}
lower_char(c) ==
  CASE c = "A" -> "a"
    [] c = "B" -> "b"
    [] c = "E" -> "e"
    [] OTHER -> c
lower(s) == [i \in 1..Len(s) |-> lower_char(s[i])]
isalnum(s) ==
  /\ Len(s) > 0
  /\ \A i \in 1..Len(s) : s[i] \in LowerChars \cup UpperChars \cup DigitChars

\* mutant: the isalnum test of the validator is missing
username_valid_length_only(v) ==
  /\ Len(v) >= MinUsernameLen
  /\ Len(v) <= MaxUsernameLen
\* UsuarioBase.username: Field(min_length, max_length), then validate_username
username_valid(v) ==
  /\ Len(v) >= MinUsernameLen
  /\ Len(v) <= MaxUsernameLen
  /\ isalnum(v)
\* mutant: the username is kept as typed
validate_username_as_typed(v) == v
validate_username(v) == lower(v)
\* UsuarioCreate.password: Field(min_length=6) and validate_password
password_valid(v) == ~(Len(v) < MinPasswordLen)

\* ------------------------------------------------------------- inputs
Admin == <<"a", "d", "m", "i", "n">>
UsernameInputs ==
  { Admin,
    <<"A", "d", "m", "i", "n">>,
    <<"b", "o", "b">>,
    <<"E", "v", "e", "2">>,
    <<"a", "_", "b">>,
    <<"a", "b">> }
PasswordInputs == {"admin123", "12345"}
\* amounts in thousandths: 100.000, 50.004
MontoInputs == {100000, 50004}
\* FacturaCreateSimple.dias_vencimiento: Optional[int], any integer
DiasInputs == {None, Some(0), Some(-1)}
NumeroInputs == {"FAC-1000", "FAC-1001"}

VARIABLES usuarios, facturas, now, sessions, arg, ret
vars == <<usuarios, facturas, now, sessions, arg, ret>>

\* ------------------------------------------------------------- numeric type
\* Numeric.result_processor on SQLite: Decimal("%.2f" % value), the value
\* rounded to hundredths, a tie to the even hundredth.
to_decimal(m) ==
  LET q == m \div 10
      r == m % 10
  IN  IF r < 5 THEN q * 10
      ELSE IF r > 5 THEN (q + 1) * 10
      ELSE IF q % 2 = 0 THEN q * 10 ELSE (q + 1) * 10

\* ------------------------------------------------------------- time
\* timedelta(days=d), timedelta(minutes=m) in minutes; datetime.date()
timedelta_days(d) == d * (24 * 60)
timedelta_minutes(m) == m
date(t) == t \div (24 * 60)

\* A row of facturas as the ORM loads it into a session.
load(row) == [row EXCEPT !.monto = to_decimal(row.monto)]

\* ------------------------------------------------------------- responses
NoResponse == [status_code |-> 0, detail |-> <<>>, body |-> None]
HTTPException(code, detail) == [status_code |-> code, detail |-> <<detail>>, body |-> None]
Response(code, body) == [status_code |-> code, detail |-> <<>>, body |-> Some(body)]

\* ------------------------------------------------------------- crud.py
\* pwd_ctx.hash: bcrypt with a fresh salt; pwd_ctx.verify recomputes the
\* checksum of the plain password under the salt of the hash.
SaltInputs == {"s1", "s2"}
pwd_hash(password, salt) ==
  [scheme |-> "bcrypt", salt |-> salt, checksum |-> <<salt, password>>]
verify_pw(plain, hashed) == hashed.checksum = <<hashed.salt, plain>>

\* db.query(Usuario).filter(Usuario.username == username).first()
get_user(us, username) ==
  IF \E i \in 1..Len(us) : us[i].username = username
  THEN Some(us[CHOOSE i \in 1..Len(us) : us[i].username = username])
  ELSE None

get_user_by_id(us, user_id) ==
  IF user_id \in 1..Len(us) THEN Some(us[user_id]) ELSE None

\* db.query(Factura).filter(Factura.id == factura_id).first() in a session
\* whose identity map holds `identity`: a row that is already loaded in the
\* session comes back as the loaded object, its attributes not refreshed.
crud_get_factura_by_id(fs, factura_id, identity) ==
  IF factura_id \notin 1..Len(fs) THEN None
  ELSE IF ~IsNone(identity) /\ Val(identity).id = factura_id THEN identity
  ELSE Some(load(fs[factura_id]))

\* mutant: the UPDATE has no WHERE clause on the id
pay_factura_every_row(fs, factura_id, identity, t) ==
  LET factura == crud_get_factura_by_id(fs, factura_id, identity)
  IN  IF ~IsNone(factura) /\ Val(factura).estado = PENDIENTE
      THEN LET fs2 == [i \in 1..Len(fs) |->
                         [fs[i] EXCEPT !.estado = PAGADO, !.updated_at = Some(t)]]
           IN  [store |-> fs2, factura |-> Some(load(fs2[factura_id]))]
      ELSE [store |-> fs, factura |-> factura]
\* mutant: the wrong member of the enumeration is written
pay_factura_cancelado(fs, factura_id, identity, t) ==
  LET factura == crud_get_factura_by_id(fs, factura_id, identity)
  IN  IF ~IsNone(factura) /\ Val(factura).estado = PENDIENTE
      THEN LET fs2 == [fs EXCEPT ![factura_id].estado = CANCELADO,
                                 ![factura_id].updated_at = Some(t)]
           IN  [store |-> fs2, factura |-> Some(load(fs2[factura_id]))]
      ELSE [store |-> fs, factura |-> factura]
\* pay_factura: [store, factura]: the table after the call and the object
\* returned.  The UPDATE is the flush of the changed attribute at commit; it
\* also sets updated_at (onupdate=func.now()); refresh reloads the row.
pay_factura(fs, factura_id, identity, t) ==
  LET factura == crud_get_factura_by_id(fs, factura_id, identity)
  IN  IF ~IsNone(factura) /\ Val(factura).estado = PENDIENTE
      THEN LET fs2 == [fs EXCEPT ![factura_id].estado = PAGADO,
                                 ![factura_id].updated_at = Some(t)]
           IN  [store |-> fs2, factura |-> Some(load(fs2[factura_id]))]
      ELSE [store |-> fs, factura |-> factura]

\* The rows of a user, as loaded objects (the order is not modelled here).
RECURSIVE select_facturas(_, _)
select_facturas(fs, user_id) ==
  IF fs = <<>> THEN <<>>
  ELSE LET rest == select_facturas(Tail(fs), user_id)
       IN  IF Head(fs).usuario_id = user_id THEN <<Head(fs)>> \o rest ELSE rest

RECURSIVE filter_estado(_, _)
filter_estado(fs, estado) ==
  IF fs = <<>> THEN <<>>
  ELSE LET rest == filter_estado(Tail(fs), estado)
       IN  IF Head(fs).estado = estado THEN <<Head(fs)>> \o rest ELSE rest

RECURSIVE sum_monto(_)
sum_monto(fs) == IF fs = <<>> THEN 0 ELSE Head(fs).monto + sum_monto(Tail(fs))

RECURSIVE load_all(_)
load_all(fs) == IF fs = <<>> THEN <<>> ELSE <<load(Head(fs))>> \o load_all(Tail(fs))

list_facturas(fs, user_id) == load_all(select_facturas(fs, user_id))

\* .order_by(...).all(): the rows in an order the sort allows; rows with equal
\* keys come in any order, and NULL sorts before every value.
null_le(a, b) == IsNone(a) \/ (~IsNone(b) /\ Val(a) <= Val(b))
Orderings(rows) ==
  LET n == Len(rows)
      perms == {f \in [1..n -> 1..n] : \A i, j \in 1..n : i # j => f[i] # f[j]}
  IN  {[i \in 1..n |-> rows[f[i]]] : f \in perms}
order_by_fecha_emision_desc(rows) ==
  {l \in Orderings(rows) :
     \A i, j \in 1..Len(l) : i < j => l[i].fecha_emision >= l[j].fecha_emision}
order_by_fecha_vencimiento_asc(rows) ==
  {l \in Orderings(rows) :
     \A i, j \in 1..Len(l) :
       i < j => null_le(l[i].fecha_vencimiento, l[j].fecha_vencimiento)}

\* mutant: the filter on the owner is missing
get_facturas_pendientes_all_users(fs, user_id) ==
  order_by_fecha_vencimiento_asc(load_all(filter_estado(fs, PENDIENTE)))
\* get_facturas_pendientes, get_facturas_pagadas: the lists .all() may return
get_facturas_pendientes(fs, user_id) ==
  order_by_fecha_vencimiento_asc(
    load_all(filter_estado(select_facturas(fs, user_id), PENDIENTE)))
get_facturas_pagadas(fs, user_id) ==
  order_by_fecha_emision_desc(
    load_all(filter_estado(select_facturas(fs, user_id), PAGADO)))

\* str(): the text of a number
str(v) == [text |-> v]

\* func.sum(Factura.monto)...scalar(): SQL sums the stored values; the result
\* has the column's type and is read as Decimal("%.2f" % sum); no row: NULL.
sql_sum_monto(rows) == IF rows = <<>> THEN None ELSE Some(to_decimal(sum_monto(rows)))
or_zero(o) == IF IsNone(o) \/ Val(o) = 0 THEN 0 ELSE Val(o)

get_user_statistics(fs, user_id) ==
  LET rows == select_facturas(fs, user_id)
  IN  [total_facturas |-> Len(rows),
       facturas_pendientes |-> Len(filter_estado(rows, PENDIENTE)),
       facturas_pagadas |-> Len(filter_estado(rows, PAGADO)),
       monto_total_pendiente |-> str(or_zero(sql_sum_monto(filter_estado(rows, PENDIENTE)))),
       monto_total_pagado |-> str(or_zero(sql_sum_monto(filter_estado(rows, PAGADO))))]

\* ------------------------------------------------------------- deps.py
SECRET_KEY == "your-secret-key-here-change-in-production"
ACCESS_TOKEN_EXPIRE_MINUTES == 1440

\* jose.jwt: a token is its payload (None: not a JSON object) and the HMAC of
\* the payload under the signing key.
jwt_sign(payload, key) == [key |-> key, payload |-> payload]
jwt_encode(claims, key) ==
  [payload |-> Some(claims), signature |-> jwt_sign(Some(claims), key)]
\* jwt.decode: the claims, or None where it raises a JWTError (signature,
\* payload, then the exp claim: expired when exp < now)
jwt_decode(token, key, t) ==
  IF token.signature # jwt_sign(token.payload, key) THEN None
  ELSE IF IsNone(token.payload) THEN None
  ELSE IF ~IsNone(Val(token.payload).exp) /\ Val(Val(token.payload).exp) < t THEN None
  ELSE token.payload

\* expires_delta: None, or the timedelta in minutes (a zero timedelta is falsy)
create_access_token(data, expires_delta, t) ==
  LET expire == IF ~IsNone(expires_delta) /\ Val(expires_delta) # 0
                THEN t + Val(expires_delta)
                ELSE t + timedelta_minutes(ACCESS_TOKEN_EXPIRE_MINUTES)
  IN  jwt_encode([sub |-> data.sub, exp |-> Some(expire)], SECRET_KEY)

credentials_exception == HTTPException(401, "No se pudieron validar las credenciales")

\* mutant: the exp claim is not checked
get_current_user_no_expiry(us, token, t) ==
  IF token.signature # jwt_sign(token.payload, SECRET_KEY) \/ IsNone(token.payload)
  THEN credentials_exception
  ELSE IF IsNone(Val(token.payload).sub) THEN credentials_exception
  ELSE LET user == get_user(us, Val(Val(token.payload).sub))
       IN  IF IsNone(user) THEN credentials_exception ELSE Response(200, Val(user))
\* get_current_user: the exception raised, or the user
get_current_user(us, token, t) ==
  LET payload == jwt_decode(token, SECRET_KEY, t)
  IN  IF IsNone(payload) THEN credentials_exception
      ELSE IF IsNone(Val(payload).sub) THEN credentials_exception
      ELSE LET user == get_user(us, Val(Val(payload).sub))
           IN  IF IsNone(user) THEN credentials_exception ELSE Response(200, Val(user))

\* verify_token: the exception raised, or the payload
verify_token(token, t) ==
  LET payload == jwt_decode(token, SECRET_KEY, t)
  IN  IF IsNone(payload) THEN HTTPException(401, "Token inválido")
      ELSE Response(200, Val(payload))

\* ------------------------------------------------------------- controllers.py
Unauthorized == HTTPException(401, "Credenciales incorrectas")

\* mutant: the password is not verified
authenticate_user_any_password(us, username, password) == get_user(us, username)
\* AuthController.authenticate_user: the user, or None
authenticate_user(us, username, password) ==
  LET user == get_user(us, username)
  IN  IF IsNone(user) THEN None
      ELSE IF ~verify_pw(password, Val(user).password_hash) THEN None
      ELSE user

NotFound == HTTPException(404, "Factura no encontrada")
Forbidden == HTTPException(403, "No tienes permisos para acceder a esta factura")
AlreadyPaid == HTTPException(400, "La factura ya está pagada")
InvalidState(estado) ==
  [status_code |-> 400,
   detail |-> <<"No se puede pagar una factura en estado", estado>>,
   body |-> None]
InternalError == HTTPException(500, "Error interno al procesar el pago")
Conflict == HTTPException(409, "El username ya existe")
ValidationError == HTTPException(422, "validation error")
IntegrityError == HTTPException(500, "Internal Server Error")

\* mutant: the ownership check is missing
get_factura_by_id_unchecked(fs, factura_id, user_id, identity) ==
  LET factura == crud_get_factura_by_id(fs, factura_id, identity)
  IN  IF IsNone(factura) THEN NotFound
      ELSE Response(200, Val(factura))

\* mutant: another user's invoice is reported as missing
get_factura_by_id_hidden(fs, factura_id, user_id, identity) ==
  LET factura == crud_get_factura_by_id(fs, factura_id, identity)
  IN  IF IsNone(factura) \/ Val(factura).usuario_id # user_id THEN NotFound
      ELSE Response(200, Val(factura))
\* FacturaController.get_factura_by_id: the exception raised, or the invoice
FacturaController_get_factura_by_id(fs, factura_id, user_id, identity) ==
  LET factura == crud_get_factura_by_id(fs, factura_id, identity)
  IN  IF IsNone(factura) THEN NotFound
      ELSE IF Val(factura).usuario_id # user_id THEN Forbidden
      ELSE Response(200, Val(factura))

\* a response whose body is a JSON array
ListResponse(l) == Response(200, [items |-> l])
\* FacturaController.get_user_facturas: the responses it may give
get_user_facturas(us, fs, user_id) ==
  IF IsNone(get_user_by_id(us, user_id))
  THEN {HTTPException(404, "Usuario no encontrado")}
  ELSE {ListResponse(l) : l \in order_by_fecha_emision_desc(list_facturas(fs, user_id))}

\* mutant: a PAID invoice passes the status check
process_payment_validate_paid_passes(factura, today) ==
  IF factura.estado \in {VENCIDO, CANCELADO}
  THEN Some(InvalidState(factura.estado))
  ELSE None

\* mutant: an overdue invoice is refused
process_payment_validate_overdue(factura, today) ==
  IF factura.estado # PENDIENTE
  THEN IF factura.estado = PAGADO THEN Some(AlreadyPaid)
       ELSE Some(InvalidState(factura.estado))
  ELSE IF ~IsNone(factura.fecha_vencimiento) /\ Val(factura.fecha_vencimiento) < today
       THEN Some(HTTPException(400, "La factura está vencida"))
       ELSE None
\* FacturaController.process_payment, lines 106-122: the exception raised by
\* the checks on the loaded invoice, or None.  The due-date branch is `pass`.
process_payment_validate(factura, today) ==
  IF factura.estado # PENDIENTE
  THEN IF factura.estado = PAGADO THEN Some(AlreadyPaid)
       ELSE Some(InvalidState(factura.estado))
  ELSE IF ~IsNone(factura.fecha_vencimiento) /\ Val(factura.fecha_vencimiento) < today
       THEN None
       ELSE None

\* FacturaController.process_payment, lines 124-137: [store, response]
process_payment_pay(fs, factura_id, identity, t) ==
  LET paid == pay_factura(fs, factura_id, identity, t)
  IN  IF IsNone(paid.factura)
      THEN [store |-> paid.store, response |-> InternalError]
      ELSE [store |-> paid.store, response |-> Response(200, Val(paid.factura))]

\* FacturaController.get_user_statistics
FacturaController_get_user_statistics(fs, user_id) ==
  LET fl == list_facturas(fs, user_id)
  IN  [total_facturas |-> Len(fl),
       facturas_pendientes |-> Len(filter_estado(fl, PENDIENTE)),
       facturas_pagadas |-> Len(filter_estado(fl, PAGADO)),
       monto_total_pendiente |-> sum_monto(filter_estado(fl, PENDIENTE)),
       monto_total_pagado |-> sum_monto(filter_estado(fl, PAGADO))]

\* mutant: an amount of zero is accepted
eligibility_zero_accepted(factura) ==
  IF factura.estado # PENDIENTE THEN FALSE
  ELSE IF factura.monto < 0 THEN FALSE
  ELSE TRUE
validate_factura_payment_eligibility(factura) ==
  IF factura.estado # PENDIENTE THEN FALSE
  ELSE IF factura.monto <= 0 THEN FALSE
  ELSE TRUE

validate_user_can_access_factura(user_id, factura) == factura.usuario_id = user_id

\* ------------------------------------------------------------- sessions
\* One request at a time per session slot: op is the handler, pc its next
\* step, identity the invoice object loaded in the request's session, request
\* the request body or form as sent, data the validated request body,
\* response what the handler returned or raised.
Idle ==
  [op |-> "none", pc |-> "idle", user_id |-> 0, factura_id |-> 0,
   identity |-> None, request |-> None, data |-> None, response |-> NoResponse]
Session == 1..NumSessions
Free(p) == sessions[p].pc \in {"idle", "done"}
Done(p, op, user_id, factura_id, response) ==
  [op |-> op, pc |-> "done", user_id |-> user_id, factura_id |-> factura_id,
   identity |-> None, request |-> None, data |-> None, response |-> response]
\* deps.get_current_user: the stored user the bearer token names
CurrentUsers == 1..Len(usuarios)
FacturaIdInputs == 1..MaxFacturas

Bob == <<"b", "o", "b">>
AdminRow == [id |-> 1, username |-> Admin, password_hash |-> pwd_hash("admin123", "s1")]
BobRow == [id |-> 2, username |-> Bob, password_hash |-> pwd_hash("bob12345", "s2")]
SeedFactura(estado) ==
  [id |-> 1, usuario_id |-> 1, monto |-> 150500, fecha_emision |-> 0,
   fecha_vencimiento |-> None, estado |-> estado, numero_factura |-> None,
   updated_at |-> None]

\* The store when the service starts: the user of init_db.py and a second
\* registered user, and no invoice or one invoice of the first user in any
\* status of the column's enumeration.
Init ==
  /\ usuarios = <<AdminRow, BobRow>>
  /\ facturas \in {<<>>} \cup {<<SeedFactura(e)>> : e \in EstadoFactura}
  /\ now = 0
  /\ sessions = [p \in Session |-> Idle]
  /\ arg = None
  /\ ret = None

\* ------------------------------------------------------------- main.py
\* POST /auth/register: body validation (schemas.UsuarioCreate), then
\* AuthController.register_user up to its existence check.
register_user_check(us, username, password) ==
  IF ~username_valid(username) \/ ~password_valid(password) THEN Some(ValidationError)
  ELSE IF ~IsNone(get_user(us, validate_username(username))) THEN Some(Conflict)
  ELSE None

\* crud.create_user: [store, response]; the INSERT fails on the unique index
\* of usuarios.username, and the handler does not catch that.
create_user(us, u, salt) ==
  IF \E i \in 1..Len(us) : us[i].username = u.username
  THEN [store |-> us, response |-> IntegrityError]
  ELSE LET row == [id |-> Len(us) + 1, username |-> u.username,
                   password_hash |-> pwd_hash(u.password, salt)]
       IN  [store |-> Append(us, row), response |-> Response(201, row)]

Registering == {p \in Session : sessions[p].op = "register" /\ sessions[p].pc = "create_user"}
\* the usernames on their way into the store
RegisteringNames == {Val(sessions[p].data).username : p \in Registering}

register(p) ==
  \E username \in UsernameInputs, password \in PasswordInputs :
    LET raised == register_user_check(usuarios, username, password)
        u == Some([username |-> username, password |-> password])
    IN  /\ Free(p)
        /\ IF IsNone(raised)
           THEN /\ Len(usuarios)
                     + Cardinality(RegisteringNames \cup {validate_username(username)})
                       <= MaxUsuarios
                /\ sessions' = [sessions EXCEPT ![p] =
                     [Idle EXCEPT !.op = "register", !.pc = "create_user",
                        !.request = u,
                        !.data = Some([username |-> validate_username(username),
                                       password |-> password])]]
           ELSE sessions' = [sessions EXCEPT ![p] =
                  [Done(p, "register", 0, 0, Val(raised)) EXCEPT
                     !.request = u,
                     !.data =
                       IF Val(raised) = Conflict
                       THEN Some([username |-> validate_username(username),
                                  password |-> password])
                       ELSE None]]
        /\ UNCHANGED <<usuarios, facturas, now, arg, ret>>

register_create(p) ==
  \E salt \in SaltInputs :
    LET r == create_user(usuarios, Val(sessions[p].data), salt)
    IN  /\ sessions[p].op = "register"
        /\ sessions[p].pc = "create_user"
        /\ usuarios' = r.store
        /\ sessions' = [sessions EXCEPT ![p] =
             [Done(p, "register", 0, 0, r.response) EXCEPT
                !.request = sessions[p].request, !.data = sessions[p].data]]
        /\ UNCHANGED <<facturas, now, arg, ret>>

\* POST /auth/login (OAuth2PasswordRequestForm): schemas.Token or 401
TokenExpiresIn == 86400
login_response(us, username, password, t) ==
  LET user == authenticate_user(us, username, password)
  IN  IF IsNone(user) THEN Unauthorized
      ELSE Response(200,
             [access_token |-> create_access_token([sub |-> Some(Val(user).username)], None, t),
              token_type |-> "bearer",
              expires_in |-> TokenExpiresIn])

login(p) ==
  \E username \in UsernameInputs, password \in PasswordInputs :
    /\ Free(p)
    /\ sessions' = [sessions EXCEPT ![p] =
         [Done(p, "login", 0, 0, login_response(usuarios, username, password, now))
            EXCEPT !.request = Some([username |-> username, password |-> password])]]
    /\ UNCHANGED <<usuarios, facturas, now, arg, ret>>

\* db.add(factura); db.commit(); db.refresh(factura): [store, response]; the
\* INSERT fails on the unique index of facturas.numero_factura.
insert_factura(fs, user_id, numero, monto, emision, vencimiento) ==
  IF \E i \in 1..Len(fs) : fs[i].numero_factura = Some(numero)
  THEN [store |-> fs, response |-> IntegrityError]
  ELSE LET row == [id |-> Len(fs) + 1, usuario_id |-> user_id, monto |-> monto,
                   fecha_emision |-> emision, fecha_vencimiento |-> Some(vencimiento),
                   estado |-> PENDIENTE, numero_factura |-> Some(numero),
                   updated_at |-> None]
       IN  [store |-> Append(fs, row), response |-> Response(200, load(row))]

\* POST /facturas/test: random number, amount in [50, 500], due in 1..30 days
MinMontoPrueba == 50000
MaxMontoPrueba == 500000
DiasPruebaInputs == {1}
crear_factura_prueba(p) ==
  \E user_id \in CurrentUsers, numero \in NumeroInputs,
     monto \in {m \in MontoInputs : MinMontoPrueba <= m /\ m <= MaxMontoPrueba},
     dias \in DiasPruebaInputs :
    LET r == insert_factura(facturas, user_id, numero, monto,
                            date(now), date(now + timedelta_days(dias)))
    IN  /\ Free(p)
        /\ Len(facturas) < MaxFacturas
        /\ facturas' = r.store
        /\ sessions' = [sessions EXCEPT ![p] = Done(p, "crear_factura_prueba", user_id, 0, r.response)]
        /\ UNCHANGED <<usuarios, now, arg, ret>>

\* POST /facturas/create: FacturaCreateSimple (monto gt 0), due in
\* `dias_vencimiento or 30` days
dias_or_default(dias) == IF IsNone(dias) \/ Val(dias) = 0 THEN DefaultDiasVencimiento ELSE Val(dias)
crear_factura_personalizada(p) ==
  \E user_id \in CurrentUsers, numero \in NumeroInputs,
     monto \in MontoInputs \cup {0}, dias \in DiasInputs :
    LET r == insert_factura(facturas, user_id, numero, monto,
                            date(now), date(now + timedelta_days(dias_or_default(dias))))
    IN  /\ Free(p)
        /\ Len(facturas) < MaxFacturas
        /\ IF ~(monto > 0)
           THEN /\ sessions' = [sessions EXCEPT ![p] =
                      Done(p, "crear_factura_personalizada", user_id, 0, ValidationError)]
                /\ UNCHANGED facturas
           ELSE /\ facturas' = r.store
                /\ sessions' = [sessions EXCEPT ![p] =
                      Done(p, "crear_factura_personalizada", user_id, 0, r.response)]
        /\ UNCHANGED <<usuarios, now, arg, ret>>

\* GET /facturas/{factura_id}
obtener_factura_response(fs, factura_id, user_id, today) ==
  LET got == FacturaController_get_factura_by_id(fs, factura_id, user_id, None)
  IN  IF IsNone(got.body) THEN got
      ELSE LET factura == Val(got.body)
           IN  Response(200,
                 [factura |-> factura,
                  dias_para_vencimiento |->
                    IF factura.estado = PENDIENTE /\ ~IsNone(factura.fecha_vencimiento)
                    THEN Some(Val(factura.fecha_vencimiento) - today) ELSE None,
                  puede_pagar |-> factura.estado = PENDIENTE,
                  monto_formateado |-> str(factura.monto)])

obtener_factura(p) ==
  \E user_id \in CurrentUsers, factura_id \in FacturaIdInputs :
    /\ Free(p)
    /\ sessions' = [sessions EXCEPT ![p] =
         Done(p, "obtener_factura", user_id, factura_id,
              obtener_factura_response(facturas, factura_id, user_id, date(now)))]
    /\ UNCHANGED <<usuarios, facturas, now, arg, ret>>

\* POST /facturas/{factura_id}/pagar, first store access:
\* FacturaController.get_factura_by_id inside process_payment
registrar_pago_get(p) ==
  \E user_id \in CurrentUsers, factura_id \in FacturaIdInputs :
    LET got == FacturaController_get_factura_by_id(facturas, factura_id, user_id, None)
    IN  /\ Free(p)
        /\ sessions' = [sessions EXCEPT ![p] =
             IF IsNone(got.body)
             THEN Done(p, "registrar_pago", user_id, factura_id, got)
             ELSE [Idle EXCEPT !.op = "registrar_pago", !.pc = "validate",
                     !.user_id = user_id, !.factura_id = factura_id,
                     !.identity = got.body]]
        /\ UNCHANGED <<usuarios, facturas, now, arg, ret>>

\* the checks of process_payment on the loaded invoice
registrar_pago_validate(p) ==
  LET s == sessions[p]
      raised == process_payment_validate(Val(s.identity), date(now))
  IN  /\ s.op = "registrar_pago"
      /\ s.pc = "validate"
      /\ sessions' = [sessions EXCEPT ![p] =
           IF IsNone(raised) THEN [s EXCEPT !.pc = "pay"]
           ELSE Done(p, "registrar_pago", s.user_id, s.factura_id, Val(raised))]
      /\ UNCHANGED <<usuarios, facturas, now, arg, ret>>

\* PagoResponse of registrar_pago
pago_response(r) ==
  IF IsNone(r.body) THEN r
  ELSE Response(200,
         [success |-> TRUE, factura |-> Val(r.body),
          monto_pagado |-> str(Val(r.body).monto),
          fecha_pago |-> Val(r.body).updated_at])

\* second store access: crud.pay_factura, and the response
registrar_pago_pay(p) ==
  LET s == sessions[p]
      r == process_payment_pay(facturas, s.factura_id, s.identity, now)
  IN  /\ s.op = "registrar_pago"
      /\ s.pc = "pay"
      /\ facturas' = r.store
      /\ sessions' = [sessions EXCEPT ![p] =
           Done(p, "registrar_pago", s.user_id, s.factura_id, pago_response(r.response))]
      /\ UNCHANGED <<usuarios, now, arg, ret>>

\* Tokens the service did not issue: signed with another key, payload changed
\* after signing, no JSON payload, no subject.
FarFuture == 1000000
AttackerKey == "attacker-key"
ForgedTokens ==
  LET claims(sub) == [sub |-> sub, exp |-> Some(FarFuture)]
  IN  { jwt_encode(claims(Some(Admin)), AttackerKey),
        [payload |-> Some(claims(Some(Bob))),
         signature |-> jwt_sign(Some(claims(Some(Admin))), SECRET_KEY)],
        [payload |-> None, signature |-> jwt_sign(None, SECRET_KEY)],
        [payload |-> None, signature |-> jwt_sign(None, AttackerKey)],
        jwt_encode(claims(None), SECRET_KEY) }

\* The bearer tokens the list requests carry: tokens the service issued to
\* the stored users, just now or longer ago than the validity window, and a
\* token signed with another key.
IssuedTokens ==
  {create_access_token([sub |-> Some(usuarios[i].username)], None, t) :
     i \in 1..Len(usuarios), t \in {now, now - ACCESS_TOKEN_EXPIRE_MINUTES - 1}}
BearerInputs ==
  IssuedTokens
    \cup {jwt_encode([sub |-> Some(Admin), exp |-> Some(FarFuture)], AttackerKey)}

\* A handler behind Depends(get_current_user): 401 from the dependency, or
\* one of the responses the handler may give for the user of the token
\* (responses[user_id]: the responses for that user).
protected(p, op, responses) ==
  \E token \in BearerInputs :
    LET current_user == get_current_user(usuarios, token, now)
    IN  /\ Free(p)
        /\ IF current_user.status_code # 200
           THEN sessions' = [sessions EXCEPT ![p] =
                  [Done(p, op, 0, 0, current_user) EXCEPT !.request = Some(token)]]
           ELSE \E r \in responses[Val(current_user.body).id] :
                  sessions' = [sessions EXCEPT ![p] =
                    [Done(p, op, Val(current_user.body).id, 0, r)
                       EXCEPT !.request = Some(token)]]
        /\ UNCHANGED <<usuarios, facturas, now, arg, ret>>

\* GET /facturas/
consultar_facturas(p) ==
  protected(p, "consultar_facturas",
            [user_id \in CurrentUsers |-> get_user_facturas(usuarios, facturas, user_id)])

\* GET /facturas/pendientes
consultar_facturas_pendientes(p) ==
  protected(p, "consultar_facturas_pendientes",
            [user_id \in CurrentUsers |->
               {ListResponse(l) : l \in get_facturas_pendientes(facturas, user_id)}])

\* GET /facturas/pagadas
consultar_facturas_pagadas(p) ==
  protected(p, "consultar_facturas_pagadas",
            [user_id \in CurrentUsers |->
               {ListResponse(l) : l \in get_facturas_pagadas(facturas, user_id)}])

\* GET /facturas/estadisticas
obtener_estadisticas(p) ==
  \E user_id \in CurrentUsers :
    /\ Free(p)
    /\ sessions' = [sessions EXCEPT ![p] =
         Done(p, "obtener_estadisticas", user_id, 0,
              Response(200, FacturaController_get_user_statistics(facturas, user_id)))]
    /\ UNCHANGED <<usuarios, facturas, now, arg, ret>>

\* GET /facturas/resumen (its two lists are those of the list endpoints)
obtener_resumen_facturas(p) ==
  \E user_id \in CurrentUsers :
    /\ Free(p)
    /\ sessions' = [sessions EXCEPT ![p] =
         Done(p, "obtener_resumen_facturas", user_id, 0,
              Response(200, [estadisticas |-> get_user_statistics(facturas, user_id)]))]
    /\ UNCHANGED <<usuarios, facturas, now, arg, ret>>

\* Invoices: creation, retrieval and payment, requests interleaving.
Next ==
  \/ \E p \in Session : crear_factura_prueba(p)
  \/ \E p \in Session : crear_factura_personalizada(p)
  \/ \E p \in Session : obtener_factura(p)
  \/ \E p \in Session : registrar_pago_get(p)
  \/ \E p \in Session : registrar_pago_validate(p)
  \/ \E p \in Session : registrar_pago_pay(p)

Spec == Init /\ [][Next]_vars

\* Registration, requests interleaving.
NextRegistro ==
  \/ \E p \in Session : register(p)
  \/ \E p \in Session : register_create(p)

SpecRegistro == Init /\ [][NextRegistro]_vars

\* Registration and login, requests interleaving.
NextAuth ==
  \/ \E p \in Session : register(p)
  \/ \E p \in Session : register_create(p)
  \/ \E p \in Session : login(p)

SpecAuth == Init /\ [][NextAuth]_vars

\* Bearer tokens: the tokens clients hold are those the login responses carry;
\* a client may also send a token that was not issued to it as it is.
HeldTokens ==
  {Val(sessions[p].response.body).access_token :
     p \in {q \in Session : sessions[q].op = "login" /\ sessions[q].pc = "done"
                              /\ sessions[q].response.status_code = 200}}
TokenInputs == HeldTokens \cup ForgedTokens

\* The instants the clock visits: around the issue of a token and around the
\* end of its validity window.
Instants ==
  {1, ACCESS_TOKEN_EXPIRE_MINUTES - 1, ACCESS_TOKEN_EXPIRE_MINUTES,
   ACCESS_TOKEN_EXPIRE_MINUTES + 1, 2 * ACCESS_TOKEN_EXPIRE_MINUTES}
Tick ==
  /\ \E t \in Instants : t > now /\ now' = t
  /\ UNCHANGED <<usuarios, facturas, sessions, arg, ret>>

\* Depends(get_current_user) of a protected endpoint, applied to a token
Depends_get_current_user ==
  \E token \in TokenInputs :
    /\ arg' = Some(token)
    /\ ret' = Some([fn |-> "get_current_user", at |-> now,
                     response |-> get_current_user(usuarios, token, now)])
    /\ UNCHANGED <<usuarios, facturas, now, sessions>>

\* deps.verify_token applied to a token
call_verify_token ==
  \E token \in TokenInputs :
    /\ arg' = Some(token)
    /\ ret' = Some([fn |-> "verify_token", at |-> now,
                     response |-> verify_token(token, now)])
    /\ UNCHANGED <<usuarios, facturas, now, sessions>>

NextToken ==
  \/ \E p \in Session : login(p)
  \/ Tick
  \/ Depends_get_current_user
  \/ call_verify_token

\* no invoice plays a part in the validation of a token
InitToken ==
  /\ usuarios = <<AdminRow, BobRow>>
  /\ facturas = <<>>
  /\ now = 0
  /\ sessions = [p \in Session |-> Idle]
  /\ arg = None
  /\ ret = None

SpecToken == InitToken /\ [][NextToken]_vars

\* Invoices created and paid, and the three listings.
NextListas ==
  \/ \E p \in Session : crear_factura_prueba(p)
  \/ \E p \in Session : registrar_pago_get(p)
  \/ \E p \in Session : registrar_pago_validate(p)
  \/ \E p \in Session : registrar_pago_pay(p)
  \/ \E p \in Session : consultar_facturas(p)
  \/ \E p \in Session : consultar_facturas_pendientes(p)
  \/ \E p \in Session : consultar_facturas_pagadas(p)

SpecListas == Init /\ [][NextListas]_vars

\* Invoices and the two statistics handlers.
NextEstadisticas ==
  \/ \E p \in Session : crear_factura_prueba(p)
  \/ \E p \in Session : crear_factura_personalizada(p)
  \/ \E p \in Session : obtener_estadisticas(p)
  \/ \E p \in Session : obtener_resumen_facturas(p)

SpecEstadisticas == Init /\ [][NextEstadisticas]_vars

\* ValidationController.validate_factura_payment_eligibility applied to an
\* invoice object of any status and amount.
FacturaArgs ==
  [id : {1}, usuario_id : {1, 2}, monto : {-1000, -10, 0, 10, 50000, 100000},
   fecha_emision : {0}, fecha_vencimiento : {None, Some(-1), Some(30)},
   estado : EstadoFactura, numero_factura : {None}, updated_at : {None}]

InitEligibility ==
  /\ usuarios = <<AdminRow, BobRow>>
  /\ facturas = <<>>
  /\ now = 0
  /\ sessions = [p \in Session |-> Idle]
  /\ arg \in {Some(f) : f \in FacturaArgs}
  /\ ret = None

payment_eligibility ==
  /\ IsNone(ret)
  /\ ret' = Some(validate_factura_payment_eligibility(Val(arg)))
  /\ UNCHANGED <<usuarios, facturas, now, sessions, arg>>

NextEligibility == payment_eligibility

SpecEligibility == InitEligibility /\ [][NextEligibility]_vars

\* ============================================================= properties
PagoDone(p) == sessions[p].op = "registrar_pago" /\ sessions[p].pc = "done"
Succeeded(p) == sessions[p].response.status_code = 200
Starts(p, op) == Free(p) /\ sessions'[p] # sessions[p] /\ sessions'[p].op = op
Exists(factura_id) == factura_id \in 1..Len(facturas)

\* C1: of two pay requests on the same invoice, at most one reports success
\* (two concurrent requests of the owner on a PENDING invoice: one succeeds,
\* the other fails).
C1_AtMostOneSucceeds ==
  \A p, q \in Session :
    (/\ p # q
     /\ PagoDone(p) /\ PagoDone(q)
     /\ sessions[p].factura_id = sessions[q].factura_id
     /\ Succeeded(p)) => ~Succeeded(q)

\* C2: a pay request returns success only when its own write step changed the
\* stored status from PENDING to PAID.
C2_SuccessOnlyByOwnWrite ==
  [][\A p \in Session :
       (/\ sessions[p].op = "registrar_pago" /\ sessions[p].pc = "pay"
        /\ sessions'[p].pc = "done"
        /\ sessions'[p].response.status_code = 200)
       => (/\ Exists(sessions[p].factura_id)
           /\ facturas[sessions[p].factura_id].estado = PENDIENTE
           /\ facturas'[sessions[p].factura_id].estado = PAGADO)]_vars

\* C3: a pay request of the owner that finds the invoice PENDING succeeds and
\* leaves it PAID; one that finds it PAID (any later request) fails with
\* AlreadyPaid; a PAID invoice never becomes PENDING again, so the transition
\* PENDING -> PAID happens at most once per invoice.
C3_PayOnce ==
  [][\A p \in Session :
       LET s == sessions[p]
           t == sessions'[p]
       IN  /\ (Starts(p, "registrar_pago") /\ t.pc = "validate")
                => Val(t.identity).estado = facturas[t.factura_id].estado
           /\ (s.op = "registrar_pago" /\ s.pc = "validate" /\ t # s)
                => /\ (Val(s.identity).estado = PAGADO
                         => t.pc = "done" /\ t.response = AlreadyPaid)
                   /\ (Val(s.identity).estado = PENDIENTE => t.pc = "pay")
           /\ (s.op = "registrar_pago" /\ s.pc = "pay" /\ t # s)
                => /\ t.pc = "done" /\ t.response.status_code = 200
                   /\ facturas'[s.factura_id].estado = PAGADO
           /\ \A i \in 1..Len(facturas) :
                facturas[i].estado = PAGADO
                  => i <= Len(facturas') /\ facturas'[i].estado = PAGADO]_vars

C3_Witness ==
  \E p, q \in Session :
    /\ PagoDone(p) /\ PagoDone(q)
    /\ sessions[p].factura_id = sessions[q].factura_id
    /\ Succeeded(p)
    /\ sessions[q].response = AlreadyPaid

\* C4: pay reports the first failing check, in the order NotFound (no such
\* id), Forbidden (requester is not the owner), AlreadyPaid (status PAID),
\* InvalidState naming the status (EXPIRED, CANCELLED); only a request that
\* passes them all goes on to pay and can succeed.
C4_CheckOrder ==
  [][\A p \in Session :
       LET s == sessions[p]
           t == sessions'[p]
       IN  /\ Starts(p, "registrar_pago")
                => /\ (t.pc = "done" /\ t.response = NotFound) <=> ~Exists(t.factura_id)
                   /\ (t.pc = "done" /\ t.response = Forbidden)
                        <=> (Exists(t.factura_id)
                             /\ facturas[t.factura_id].usuario_id # t.user_id)
                   /\ t.pc = "validate"
                        <=> (Exists(t.factura_id)
                             /\ facturas[t.factura_id].usuario_id = t.user_id)
                   /\ t.pc = "validate"
                        => Val(t.identity).estado = facturas[t.factura_id].estado
           /\ (s.op = "registrar_pago" /\ s.pc = "validate" /\ t # s)
                => LET estado == Val(s.identity).estado
                   IN  /\ (t.pc = "done" /\ t.response = AlreadyPaid) <=> estado = PAGADO
                       /\ (t.pc = "done" /\ t.response.status_code = 400
                           /\ t.response.detail
                                = <<"No se puede pagar una factura en estado", estado>>)
                            <=> estado \in {VENCIDO, CANCELADO}
                       /\ t.pc = "pay" <=> estado = PENDIENTE
           /\ (s.op = "registrar_pago" /\ ~Free(p) /\ t # s
               /\ t.pc = "done" /\ t.response.status_code = 200)
                => s.pc = "pay"]_vars

\* a non-owner was refused on a PAID invoice: Forbidden came before AlreadyPaid
C4_Witness ==
  \E p, q \in Session :
    /\ PagoDone(p) /\ sessions[p].response = Forbidden
    /\ Exists(sessions[p].factura_id)
    /\ facturas[sessions[p].factura_id].estado = PAGADO
    /\ PagoDone(q) /\ sessions[q].response.status_code = 400
    /\ sessions[q].response # AlreadyPaid

\* C5: can_access(u, invoice) is true exactly for the owner, and a get or a
\* pay request on an existing invoice (in any status) by a user for whom it is
\* false fails with Forbidden, returns no invoice and leaves the invoices
\* unchanged; Forbidden is raised for no other request.
C5_OwnerOnly ==
  [][\A p \in Session :
       LET t == sessions'[p]
       IN  (Starts(p, "registrar_pago") \/ Starts(p, "obtener_factura"))
             => /\ Exists(t.factura_id)
                     => /\ validate_user_can_access_factura(t.user_id, facturas[t.factura_id])
                             <=> facturas[t.factura_id].usuario_id = t.user_id
                        /\ ~validate_user_can_access_factura(t.user_id, facturas[t.factura_id])
                             => /\ t.pc = "done"
                                /\ t.response = Forbidden
                                /\ IsNone(t.response.body)
                                /\ facturas' = facturas
                /\ (t.pc = "done" /\ t.response = Forbidden)
                     => /\ Exists(t.factura_id)
                        /\ ~validate_user_can_access_factura(t.user_id, facturas[t.factura_id])]_vars

C5_Witness ==
  \E p, q \in Session :
    /\ PagoDone(p) /\ sessions[p].response = Forbidden
    /\ facturas[sessions[p].factura_id].estado \in {VENCIDO, CANCELADO}
    /\ sessions[q].op = "obtener_factura" /\ sessions[q].response = Forbidden

\* C6: the only status change of a stored invoice is PENDING -> PAID: no
\* step removes an invoice, changes the status of a PAID, EXPIRED or
\* CANCELLED invoice, or moves a PENDING invoice to EXPIRED or CANCELLED.
C6_OnlyPendingToPaid ==
  [][\A i \in 1..Len(facturas) :
       /\ i <= Len(facturas')
       /\ facturas'[i].estado # facturas[i].estado
            => facturas[i].estado = PENDIENTE /\ facturas'[i].estado = PAGADO]_vars

C6_Witness ==
  \E i \in 1..Len(facturas), j \in 1..Len(facturas) :
    /\ facturas[i].estado = PAGADO /\ ~IsNone(facturas[i].updated_at)
    /\ facturas[j].estado \in {VENCIDO, CANCELADO}

\* C7: the due date plays no part in pay: no pay request of the owner is
\* refused on a PENDING invoice, overdue or not (a finished request whose
\* invoice is still PENDING found no invoice under that id), and a pay request
\* that passes the status check on an overdue invoice pays it.
C7_DueDateIgnored ==
  \A p \in Session :
    LET s == sessions[p]
    IN  /\ (/\ PagoDone(p) /\ Exists(s.factura_id)
            /\ facturas[s.factura_id].usuario_id = s.user_id
            /\ facturas[s.factura_id].estado = PENDIENTE)
             => s.response = NotFound
        /\ (PagoDone(p) /\ Succeeded(p)) => facturas[s.factura_id].estado = PAGADO
        /\ (s.op = "registrar_pago" /\ s.pc = "validate")
             => Val(s.identity) \in {load(facturas[s.factura_id]),
                                    load([facturas[s.factura_id] EXCEPT
                                            !.estado = PENDIENTE, !.updated_at = None])}

Overdue(f) == ~IsNone(f.fecha_vencimiento) /\ Val(f.fecha_vencimiento) < date(now)
C7_Witness ==
  \E p \in Session :
    /\ PagoDone(p) /\ Succeeded(p)
    /\ Overdue(facturas[sessions[p].factura_id])
    /\ Val(sessions[p].response.body).factura.estado = PAGADO

\* C8: is_payment_eligible(invoice) is true exactly when the status is
\* PENDING and the amount is positive: false for PAID, EXPIRED and CANCELLED,
\* and false for an amount <= 0.
C8_Eligibility ==
  ~IsNone(ret) =>
    LET f == Val(arg)
    IN  /\ Val(ret) \in BOOLEAN
        /\ Val(ret) <=> (f.estado = PENDIENTE /\ f.monto > 0)
        /\ f.estado \in {PAGADO, VENCIDO, CANCELADO} => ~Val(ret)
        /\ f.monto <= 0 => ~Val(ret)

C8_Witness ==
  /\ ret = Some(FALSE)
  /\ Val(arg).estado = PENDIENTE
  /\ Val(arg).monto = 0

\* The amount of an invoice as every invoice endpoint reports it.
Amount(i) == load(facturas[i]).monto
Own(user_id) == {i \in 1..Len(facturas) : facturas[i].usuario_id = user_id}
OwnIn(user_id, estado) == {i \in Own(user_id) : facturas[i].estado = estado}
RECURSIVE SumAmounts(_)
SumAmounts(S) ==
  IF S = {} THEN 0
  ELSE LET i == CHOOSE j \in S : TRUE IN Amount(i) + SumAmounts(S \ {i})

\* C9: the statistics handler and the statistics of the summary handler both
\* return the number of the user's invoices, the numbers of them PENDING and
\* PAID, and the sums of the amounts of those PENDING and of those PAID (zero
\* for none).
C9_Statistics ==
  [][\A p \in Session :
       LET t == sessions'[p]
           u == t.user_id
       IN  /\ Starts(p, "obtener_estadisticas")
                => LET e == Val(t.response.body)
                   IN  /\ e.total_facturas = Cardinality(Own(u))
                       /\ e.facturas_pendientes = Cardinality(OwnIn(u, PENDIENTE))
                       /\ e.facturas_pagadas = Cardinality(OwnIn(u, PAGADO))
                       /\ e.monto_total_pendiente = SumAmounts(OwnIn(u, PENDIENTE))
                       /\ e.monto_total_pagado = SumAmounts(OwnIn(u, PAGADO))
           /\ Starts(p, "obtener_resumen_facturas")
                => LET e == Val(t.response.body).estadisticas
                   IN  /\ e.total_facturas = Cardinality(Own(u))
                       /\ e.facturas_pendientes = Cardinality(OwnIn(u, PENDIENTE))
                       /\ e.facturas_pagadas = Cardinality(OwnIn(u, PAGADO))
                       /\ e.monto_total_pendiente.text = SumAmounts(OwnIn(u, PENDIENTE))
                       /\ e.monto_total_pagado.text = SumAmounts(OwnIn(u, PAGADO))]_vars

\* C10: a valid registration whose lowercased username belongs to a stored
\* user fails with Conflict and changes no user record, and one whose
\* lowercased username belongs to none goes on to the insert; a registration
\* succeeds only when no stored user has that username, and then adds exactly
\* that one user; no step changes or removes a stored user.
C10_RegisterConflict ==
  [][/\ \A p \in Session :
          LET s == sessions[p]
              t == sessions'[p]
          IN  /\ (Starts(p, "register") /\ ~IsNone(t.data))
                   => /\ (\E i \in 1..Len(usuarios) :
                             usuarios[i].username = lower(Val(t.data).username))
                           <=> (t.pc = "done" /\ t.response = Conflict)
                      /\ usuarios' = usuarios
              /\ (s.op = "register" /\ s.pc = "create_user" /\ t # s)
                   => IF t.response.status_code = 201
                      THEN /\ ~\E i \in 1..Len(usuarios) :
                                 usuarios[i].username = lower(Val(s.data).username)
                           /\ Len(usuarios') = Len(usuarios) + 1
                           /\ usuarios'[Len(usuarios')].username = lower(Val(s.data).username)
                      ELSE usuarios' = usuarios
     /\ \A i \in 1..Len(usuarios) : i <= Len(usuarios') /\ usuarios'[i] = usuarios[i]
     /\ usuarios' # usuarios
          => \E p \in Session : sessions'[p].pc = "done"
                                 /\ sessions'[p].response.status_code = 201
                                 /\ sessions[p].pc = "create_user"]_vars

C10_Witness ==
  \E p, q \in Session :
    /\ sessions[p].op = "register" /\ sessions[p].response = Conflict
    /\ Val(sessions[p].data).username = Admin
    /\ sessions[q].op = "register" /\ sessions[q].response.status_code = 201
    /\ Len(usuarios) = 3

\* C11: a registration whose username is not purely alphanumeric, or whose
\* password is shorter than 6 characters, fails with ValidationError at once,
\* whatever the store holds (also when the username is taken), and creates no
\* user; a registration that succeeds stores the username lowercased.
C11_ValidationFirst ==
  [][\A p \in Session :
       LET s == sessions[p]
           t == sessions'[p]
       IN  /\ Starts(p, "register")
                => /\ (~isalnum(Val(t.request).username)
                       \/ Len(Val(t.request).password) < 6)
                        => /\ t.pc = "done"
                           /\ t.response = ValidationError
                           /\ IsNone(t.data)
                   /\ usuarios' = usuarios
           /\ (s.op = "register" /\ s.pc = "create_user" /\ t # s)
                => /\ isalnum(Val(s.request).username)
                   /\ Len(Val(s.request).password) >= 6
                   /\ t.response.status_code = 201
                        => /\ usuarios'[Len(usuarios')].username
                                = lower(Val(s.request).username)
                           /\ Val(t.response.body).username
                                = lower(Val(s.request).username)
                   /\ t.response.status_code # 201 => usuarios' = usuarios]_vars

\* a malformed registration of a taken name was refused as malformed, and a
\* name typed with capitals was stored lowercased
C11_Witness ==
  \E p, q \in Session :
    /\ sessions[p].op = "register" /\ sessions[p].response = ValidationError
    /\ lower(Val(sessions[p].request).username) = Admin
    /\ sessions[q].op = "register" /\ sessions[q].response.status_code = 201
    /\ Val(sessions[q].request).username # lower(Val(sessions[q].request).username)
    /\ usuarios[Len(usuarios)].username = lower(Val(sessions[q].request).username)

\* C12: authenticate returns the user only when a user with that username
\* exists and the password matches its stored hash; a login with an unknown
\* username and a login with a known username and a wrong password end in
\* the same response (Unauthorized, the same status and detail), and neither
\* carries a token; only a successful login issues one, for that user.
C12_LoginUniform ==
  [][\A p \in Session :
       LET t == sessions'[p]
       IN  Starts(p, "login")
             => LET r == Val(t.request)
                    known == {i \in 1..Len(usuarios) : usuarios[i].username = r.username}
                    match == {i \in known :
                                verify_pw(r.password, usuarios[i].password_hash)}
                    user == authenticate_user(usuarios, r.username, r.password)
                IN  /\ ~IsNone(user) <=> match # {}
                    /\ ~IsNone(user) => Val(user).id \in match
                    /\ match = {}
                         => /\ t.response = Unauthorized
                            /\ IsNone(t.response.body)
                    /\ match # {}
                         => /\ t.response.status_code = 200
                            /\ Val(Val(t.response.body).access_token.payload).sub
                                 = Some(r.username)
                    /\ t.pc = "done"
                    /\ usuarios' = usuarios]_vars

\* both kinds of failed login are in hand, with equal responses
C12_Witness ==
  \E p, q \in Session :
    /\ sessions[p].op = "login" /\ sessions[q].op = "login"
    /\ IsNone(get_user(usuarios, Val(sessions[p].request).username))
    /\ ~IsNone(get_user(usuarios, Val(sessions[q].request).username))
    /\ sessions[p].response = Unauthorized
    /\ sessions[q].response = sessions[p].response

\* What a validation step says of the token it was given.
Validated == ret' # ret /\ ~IsNone(ret')
SignedByService(token) == token.signature = jwt_sign(token.payload, SECRET_KEY)
Genuine(token) ==
  /\ SignedByService(token)
  /\ ~IsNone(token.payload)
  /\ ~IsNone(Val(token.payload).sub)
Subject(r) ==
  IF r.fn = "get_current_user" THEN Some(Val(r.response.body).username)
  ELSE Val(r.response.body).sub
\* the token of a login at time t validates before t + 24 hours, with the
\* user's username as subject, and is refused with 401 after its expiration
TokenWindow ==
  /\ \A p \in Session :
       (Starts(p, "login") /\ sessions'[p].response.status_code = 200)
         => LET claims == Val(Val(sessions'[p].response.body).access_token.payload)
            IN  /\ claims.sub = Some(Val(sessions'[p].request).username)
                /\ claims.exp = Some(now + 24 * 60)
                /\ SignedByService(Val(sessions'[p].response.body).access_token)
  /\ (Validated /\ Genuine(Val(arg')))
       => LET claims == Val(Val(arg').payload)
              r == Val(ret')
          IN  /\ now < Val(claims.exp)
                   => r.response.status_code = 200 /\ Subject(r) = claims.sub
              /\ now > Val(claims.exp) => r.response.status_code = 401
\* a token with a bad signature or a malformed payload is refused with 401
BadTokenRefused ==
  (Validated /\ (~SignedByService(Val(arg')) \/ IsNone(Val(arg').payload)))
    => Val(ret').response.status_code = 401
NoSubject(token) ==
  SignedByService(token) /\ ~IsNone(token.payload) /\ IsNone(Val(token.payload).sub)

\* C13 as stated: a token issued at time t with the default window validates
\* (its subject the user's username) at every time before t + 24 hours and
\* fails with Unauthorized at every time after its expiration; a token with a
\* bad signature, a malformed payload or no subject always fails with
\* Unauthorized, in get_current_user and in verify_token.
C13_TokenValidation ==
  [][/\ TokenWindow
     /\ BadTokenRefused
     /\ (Validated /\ NoSubject(Val(arg')))
          => Val(ret').response.status_code = 401]_vars

\* C13, amended: as above, but a correctly signed token with no subject is
\* refused with Unauthorized by get_current_user (the validation of every
\* protected endpoint); verify_token returns its claims.
C13_TokenValidationBearer ==
  [][/\ TokenWindow
     /\ BadTokenRefused
     /\ (Validated /\ NoSubject(Val(arg')))
          => IF Val(ret').fn = "get_current_user"
             THEN Val(ret').response = credentials_exception
             ELSE Val(ret').response = Response(200, Val(Val(arg').payload))]_vars

\* a token a login issued was presented after its window and refused
C13_Witness ==
  /\ ~IsNone(ret) /\ ~IsNone(arg)
  /\ Val(arg) \in HeldTokens
  /\ Val(ret).fn = "get_current_user"
  /\ Val(ret).at > Val(Val(Val(arg).payload).exp)
  /\ Val(ret).response = credentials_exception

ListOps == {"consultar_facturas", "consultar_facturas_pendientes", "consultar_facturas_pagadas"}
\* the stored user a token names, signed by the service and not expired
BearerOf(token) ==
  {i \in 1..Len(usuarios) :
     /\ SignedByService(token)
     /\ ~IsNone(token.payload)
     /\ Val(token.payload).sub = Some(usuarios[i].username)
     /\ Val(Val(token.payload).exp) >= now}
\* the invoices a listing of user u is to hold
Listed(op, u) ==
  {i \in 1..Len(facturas) :
     /\ facturas[i].usuario_id = u
     /\ op = "consultar_facturas_pendientes" => facturas[i].estado = PENDIENTE
     /\ op = "consultar_facturas_pagadas" => facturas[i].estado = PAGADO}

C15_DueNotBeforeIssue ==
  \A i \in 1..Len(facturas) :
    (~IsNone(facturas[i].numero_factura) /\ ~IsNone(facturas[i].fecha_vencimiento))
      => Val(facturas[i].fecha_vencimiento) >= facturas[i].fecha_emision

\* A step of a pay request: users and invoices other than the targeted one
\* are untouched; a request that does not succeed writes nothing, and fails
\* with NotFound, Forbidden, AlreadyPaid or InvalidState.
PayFrame(stamped) ==
  \A p \in Session :
    LET s == sessions[p]
        t == sessions'[p]
    IN  (t # s /\ t.op = "registrar_pago")
          => /\ usuarios' = usuarios
             /\ IF t.pc = "done" /\ t.response.status_code = 200
                THEN facturas' =
                       [facturas EXCEPT ![t.factura_id] =
                          IF stamped
                          THEN [@ EXCEPT !.estado = PAGADO, !.updated_at = Some(now)]
                          ELSE [@ EXCEPT !.estado = PAGADO]]
                ELSE facturas' = facturas
             /\ (t.pc = "done" /\ t.response.status_code # 200)
                  => \/ t.response \in {NotFound, Forbidden, AlreadyPaid}
                     \/ \E e \in {VENCIDO, CANCELADO} : t.response = InvalidState(e)

\* C16 as stated: a pay request that succeeds changes only the status of the
\* targeted invoice (its owner, amount, dates and number, every other invoice
\* and every user record are unchanged); a pay request that fails with
\* NotFound, Forbidden, AlreadyPaid or InvalidState leaves the whole store
\* unchanged.
C16_PayFrameStatusOnly ==
  [][PayFrame(FALSE)]_vars

\* C16, amended: a pay request that succeeds changes the status and the
\* update timestamp of the targeted invoice, and nothing else.
C16_PayFrame ==
  [][PayFrame(TRUE)]_vars

\* one invoice was paid next to another, on which a pay request was refused
\* for its status
C16_Witness ==
  \E p, q \in Session :
    /\ PagoDone(p) /\ Succeeded(p)
    /\ PagoDone(q) /\ sessions[q].response.status_code = 400
    /\ sessions[q].response # AlreadyPaid
    /\ sessions[p].factura_id # sessions[q].factura_id
    /\ ~IsNone(facturas[sessions[p].factura_id].updated_at)

RegisterDone(p) ==
  sessions[p].op = "register" /\ sessions[p].pc = "done" /\ ~IsNone(sessions[p].data)

\* C17: of two registrations of the same normalized username, however their
\* existence checks and inserts interleave, at most one user record with that
\* username is stored, one registration succeeds and the other fails with
\* Conflict (not with an internal error).
C17_RegisterRace ==
  /\ \A i, j \in 1..Len(usuarios) :
       usuarios[i].username = usuarios[j].username => i = j
  /\ \A p, q \in Session :
       (/\ p # q
        /\ RegisterDone(p) /\ RegisterDone(q)
        /\ Val(sessions[p].data).username = Val(sessions[q].data).username
        /\ sessions[p].response.status_code = 201)
         => sessions[q].response = Conflict

\* C18: after a registration that succeeded, a login with the same username
\* string and the same password as sent at registration succeeds and issues a
\* token whose subject is the registered user's username, also when the
\* username was sent with uppercase letters.
C18_RegisterThenLogin ==
  [][\A p, q \in Session :
       (/\ Starts(p, "login")
        /\ sessions[q].op = "register" /\ sessions[q].pc = "done"
        /\ sessions[q].response.status_code = 201
        /\ sessions'[p].request = sessions[q].request)
         => /\ sessions'[p].response.status_code = 200
            /\ Val(Val(sessions'[p].response.body).access_token.payload).sub
                 = Some(Val(sessions[q].response.body).username)]_vars

====
